---- MODULE Spec2Model ----
(***************************************************************************)
(* A model of the SoulMail backend's two source files:                     *)
(*   src/middleware/errorHandler.js  error classes, errorHandler,          *)
(*                                   asyncHandler                          *)
(*   src/models/letter.js            goal / letter schemas and the         *)
(*                                   deliveredAt validator                 *)
(* Four specifications share one set of variables; each moves only its own *)
(* component and leaves the others at their initial values:                *)
(*   SpecErrors  a failure is passed to errorHandler, which answers it     *)
(*   SpecAsync   requests run through asyncHandler-wrapped route handlers  *)
(*   SpecLetter  a letter document is created, edited and saved            *)
(*   SpecGoals   goals change status and are carried forward               *)
(***************************************************************************)
EXTENDS Integers, Sequences, FiniteSets, TLC

VARIABLES
  nodeEnv,      \* process.env.NODE_ENV
  ePc,          \* position of the error path: idle, raised, responded, crashed
  error,        \* the failure value handed to errorHandler
  responses,    \* the responses errorHandler has emitted for it, in order
  handler,      \* per request: how its route handler behaves
  wrapper,      \* per request: idle, returned, or threw (the wrapper call itself)
  escaped,      \* per request: the exception that left the wrapper, if any
  promise,      \* per request: the promise Promise.resolve(...) produced
  reaction,     \* per request: the .catch(next) reaction: none, registered, queued, ran
  nextCalls,    \* per request: the arguments the wrapper's reaction passed to next
  now,          \* the clock new Date() reads, in ms since the epoch
  letter,       \* the letter document in memory, with its change tracking
  lastValidate, \* the deliveredAt validator call made by the step just taken
  goals,        \* every goal subdocument, with the letter that holds it
  letters,      \* how many letters exist (their ids are 1..letters)
  gClock,       \* the clock of the goal service
  carry         \* a carry-forward between its two document writes

errVars == <<nodeEnv, ePc, error, responses>>

asyncVars == <<handler, wrapper, escaped, promise, reaction, nextCalls>>

letterVars == <<now, letter, lastValidate>>

goalVars == <<goals, letters, gClock, carry>>

(***************************************************************************)
(* JavaScript values.  An optional property is a sequence of length at     *)
(* most one (<<>> is undefined/null).  error.code may be a number or a     *)
(* string, and === tells them apart, so a code is tagged with its type.    *)
(* An object is the sequence of its [k, v] entries in creation order.      *)
(***************************************************************************)
Undefined == [t |-> "undefined", v |-> ""]
Num(s) == [t |-> "number", v |-> s]
Str(s) == [t |-> "string", v |-> s]

Truthy(x) ==
  \/ x.t = "string" /\ x.v # ""
  \/ x.t = "number" /\ x.v # "0"

\* Keys that are canonical array indices, listed in ascending numeric order.
IndexKeys == <<"0", "1", "2">>

IsArrayIndex(k) == \E i \in 1..Len(IndexKeys) : IndexKeys[i] = k

IndexValue(k) == CHOOSE i \in 1..Len(IndexKeys) : IndexKeys[i] = k

ObjHas(obj, k) == \E i \in 1..Len(obj) : obj[i].k = k

\* obj[k] = v : an existing key keeps its place, a new key is appended.
ObjSet(obj, k, v) ==
  IF ObjHas(obj, k)
    THEN [i \in 1..Len(obj) |-> IF obj[i].k = k THEN [k |-> k, v |-> v] ELSE obj[i]]
    ELSE Append(obj, [k |-> k, v |-> v])

RECURSIVE SelectEntries(_, _)
SelectEntries(obj, index) ==
  IF obj = <<>> THEN <<>>
  ELSE IF IsArrayIndex(Head(obj).k) = index
    THEN <<Head(obj)>> \o SelectEntries(Tail(obj), index)
    ELSE SelectEntries(Tail(obj), index)

RECURSIVE InsertByIndex(_, _)
InsertByIndex(sorted, entry) ==
  IF sorted = <<>> THEN <<entry>>
  ELSE IF IndexValue(entry.k) < IndexValue(Head(sorted).k)
    THEN <<entry>> \o sorted
    ELSE <<Head(sorted)>> \o InsertByIndex(Tail(sorted), entry)

RECURSIVE SortByIndex(_)
SortByIndex(entries) ==
  IF entries = <<>> THEN <<>>
  ELSE InsertByIndex(SortByIndex(Tail(entries)), Head(entries))

\* Own-property order: array-index keys ascending, then the rest as created.
OwnEntries(obj) == SortByIndex(SelectEntries(obj, TRUE)) \o SelectEntries(obj, FALSE)

ObjectValues(obj) == [i \in 1..Len(obj) |-> OwnEntries(obj)[i].v]

RECURSIVE Join(_, _)
Join(segments, sep) ==
  IF segments = <<>> THEN ""
  ELSE IF Len(segments) = 1 THEN segments[1]
  ELSE segments[1] \o sep \o Join(Tail(segments), sep)

(***************************************************************************)
(* Failure values.                                                         *)
(***************************************************************************)
MaxFields == 2

Messages == {"boom", "Goal text is required"}

Stacks == {"at a.js:1", "at b.js:2"}

\* Paths of per-field errors of a letter, each the list of the segments its
\* dotted string is made of.
Paths ==
  { <<"content">>, <<"deliveredAt">>,
    <<"goals", "0", "text">>, <<"goals", "1", "text">>,
    <<"goals", "0", "reflection">>, <<"reflections", "0", "reflection">> }

FieldErrors == [path : Paths, message : Messages]

\* error.errors: one entry per offending path, in the order Object.keys
\* iterates them; the keys of one object are distinct.
ErrorCollections ==
  UNION { { c \in [1..n -> FieldErrors] :
              \A i, j \in 1..n : i # j => c[i].path # c[j].path } : n \in 0..MaxFields }

OneFieldError == <<[path |-> <<"content">>, message |-> "Letter content is required"]>>

BaseError(name, message, stack) ==
  [ name |-> name, message |-> message, stack |-> stack,
    errors |-> <<>>, code |-> Undefined, keyValue |-> <<>>,
    isOperational |-> FALSE, statusCode |-> 0, fields |-> <<>> ]

AppError(message, statusCode, stack) ==
  [ BaseError("Error", message, stack) EXCEPT
      !.statusCode = statusCode, !.isOperational = TRUE ]

ValidationError(message, fieldErrors, stack) ==
  [ AppError(message, 400, stack) EXCEPT
      !.code = Str("VALIDATION_ERROR"), !.fields = fieldErrors ]

NotFoundError(message, stack) ==
  [ AppError(message, 404, stack) EXCEPT !.code = Str("NOT_FOUND") ]

ForbiddenError(message, stack) ==
  [ AppError(message, 403, stack) EXCEPT !.code = Str("FORBIDDEN") ]

UnauthorizedError(message, stack) ==
  [ AppError(message, 401, stack) EXCEPT !.code = Str("UNAUTHORIZED") ]

AIServiceError(message, stack) ==
  [ AppError(message, 503, stack) EXCEPT !.code = Str("AI_SERVICE_ERROR") ]

SomeFields == <<[k |-> "reflection", v |-> "Reflection must be at least 50 characters long"]>>

\* What the route handlers construct with the classes of this file.
TaxonomyErrors ==
  UNION { { AppError(m, 400, s), AppError(m, 418, s),
            ValidationError(m, <<>>, s), ValidationError(m, <<SomeFields>>, s),
            NotFoundError(m, s), ForbiddenError(m, s),
            UnauthorizedError(m, s), AIServiceError(m, s) } :
          <<m, s>> \in Messages \X Stacks }

\* What the storage layer raises for a document that fails validation.
StorageValidationFailures ==
  { [ BaseError("ValidationError", "Letter validation failed", s) EXCEPT !.errors = <<c>> ] :
      <<c, s>> \in ErrorCollections \X {"at a.js:1"} }

\* Failure objects are open: any property may be present next to any other.
ShapedFailures ==
  [ name : {"Error", "ValidationError", "CastError"},
    message : Messages,
    stack : Stacks,
    errors : {<<>>, <<<<>>>>, <<OneFieldError>>},
    code : {Undefined, Num("11000"), Str("11000"), Str("NOT_FOUND"), Str("")},
    keyValue : {<<>>, <<<<>>>>, <<<<"email">>>>, <<<<"username", "email">>>>},
    isOperational : BOOLEAN,
    statusCode : {400, 404, 418, 503},
    fields : {<<>>, <<SomeFields>>} ]

Failures == TaxonomyErrors \cup StorageValidationFailures \cup ShapedFailures

(***************************************************************************)
(* errorHandler.js: helpers and the handler.                               *)
(***************************************************************************)
\* The leaf is not taken: the whole dotted path is the key.
LeafName_FullPath(path) == Join(path, ".")

LeafName(path) ==
  LET fullPath == Join(path, ".")
  IN  IF Len(path) > 1 THEN path[Len(path)] ELSE fullPath

RECURSIVE CollectFieldErrors(_, _)
CollectFieldErrors(fieldErrors, errs) ==
  IF errs = <<>> THEN fieldErrors
  ELSE CollectFieldErrors(
         ObjSet(fieldErrors, LeafName(Head(errs).path), Head(errs).message),
         Tail(errs))

extractMongooseErrors(mongooseError) ==
  IF mongooseError.errors # <<>>
    THEN CollectFieldErrors(<<>>, mongooseError.errors[1])
    ELSE <<>>

getFirstErrorMessage(fieldErrors) ==
  LET errorMessages == ObjectValues(fieldErrors)
  IN  IF Len(errorMessages) > 0 THEN errorMessages[1] ELSE "Validation failed"

Json(status, code, message, fields, stack) ==
  [ status |-> status, success |-> FALSE, code |-> code, message |-> message,
    fields |-> fields, stack |-> stack ]

Answer(r) == [threw |-> FALSE, sent |-> <<r>>]

TypeErrorThrown == [threw |-> TRUE, sent |-> <<>>]

HandleValidation(e) ==
  LET fieldErrors == extractMongooseErrors(e)
      summaryMessage == getFirstErrorMessage(fieldErrors)
  IN  Answer(Json(400, Str("VALIDATION_ERROR"), summaryMessage, <<fieldErrors>>, <<>>))

HandleCast(e) ==
  Answer(Json(400, Str("INVALID_ID"), "Invalid ID format", <<>>, <<>>))

\* Object.keys(error.keyValue) throws a TypeError when keyValue is undefined.
HandleDuplicate(e) ==
  IF e.keyValue = <<>> THEN TypeErrorThrown
  ELSE
    LET keys == e.keyValue[1]
        duplicateField == IF keys = <<>> THEN "undefined" ELSE keys[1]
    IN  Answer(Json(400, Str("DUPLICATE_ERROR"),
                    "A record with this " \o duplicateField \o " already exists",
                    << <<[k |-> duplicateField,
                          v |-> "This " \o duplicateField \o " is already in use"]>> >>,
                    <<>>))

HandleOperational(e) ==
  Answer(Json(e.statusCode,
              IF Truthy(e.code) THEN e.code ELSE Str("ERROR"),
              e.message,
              IF e.fields # <<>> THEN e.fields ELSE <<>>,
              <<>>))

\* The mode is not consulted: the real message and the stack always go out.
HandleUnknown_Leaky(e, isDevelopment) ==
  Answer(Json(500, Str("INTERNAL_ERROR"), e.message, <<>>, <<e.stack>>))

HandleUnknown(e, isDevelopment) ==
  Answer(Json(500, Str("INTERNAL_ERROR"),
              IF isDevelopment THEN e.message ELSE "An unexpected error occurred",
              <<>>,
              IF isDevelopment THEN <<e.stack>> ELSE <<>>))

IsStorageValidation(e) == e.name = "ValidationError" /\ e.errors # <<>>

IsCast(e) == e.name = "CastError"

IsDuplicateKey(e) == e.code = Num("11000")

IsOperational(e) == e.isOperational

Classify(e, env) ==
  LET isDevelopment == env = "development"
  IN  IF IsStorageValidation(e) THEN HandleValidation(e)
      ELSE IF IsCast(e) THEN HandleCast(e)
      ELSE IF IsDuplicateKey(e) THEN HandleDuplicate(e)
      ELSE IF IsOperational(e) THEN HandleOperational(e)
      ELSE HandleUnknown(e, isDevelopment)

NoError == BaseError("", "", "")

EnvModes == {"development", "production", "test"}

ErrInit ==
  /\ nodeEnv \in EnvModes
  /\ ePc = "idle"
  /\ error = NoError
  /\ responses = <<>>

\* A failure reaches the error path: next(err) hands it to errorHandler.
Raise ==
  /\ ePc = "idle"
  /\ \E e \in Failures : error' = e
  /\ ePc' = "raised"
  /\ UNCHANGED <<nodeEnv, responses, asyncVars, letterVars, goalVars>>

errorHandler ==
  /\ ePc = "raised"
  /\ LET out == Classify(error, nodeEnv)
     IN  /\ responses' = responses \o out.sent
         /\ ePc' = IF out.threw THEN "crashed" ELSE "responded"
  /\ UNCHANGED <<nodeEnv, error, asyncVars, letterVars, goalVars>>

NextRequest ==
  /\ ePc \in {"responded", "crashed"}
  /\ ePc' = "idle"
  /\ error' = NoError
  /\ responses' = <<>>
  /\ UNCHANGED <<nodeEnv, asyncVars, letterVars, goalVars>>

ErrNext == Raise \/ errorHandler \/ NextRequest

ErrQuiet ==
  /\ nodeEnv = "production"
  /\ ePc = "idle"
  /\ error = NoError
  /\ responses = <<>>

(***************************************************************************)
(* errorHandler.js: asyncHandler.                                          *)
(*   (request, response, next) =>                                          *)
(*       Promise.resolve(routeHandler(request, response, next)).catch(next)*)
(* The wrapper body is one synchronous step.  routeHandler runs inside it  *)
(* and either throws, returns a plain value, or returns a promise that is  *)
(* already settled or still pending.  A pending promise settles later; a   *)
(* settled promise queues the reaction registered by .catch, and the       *)
(* microtask queue runs it.                                                *)
(***************************************************************************)
MaxRequests == 2

Requests == 1..MaxRequests

Reasons == {"boom", "db down"}

HandlerBehaviours ==
  [kind : {"throws", "rejected"}, reason : Reasons]
    \cup [kind : {"value", "fulfilled", "pending"}, reason : {""}]

NoHandler == [kind |-> "none", reason |-> ""]

NoPromise == [state |-> "none", reason |-> ""]

\* Promise.resolve(x): x itself when it is a promise, else a promise fulfilled with x.
PromiseResolve(h) ==
  CASE h.kind = "value"     -> [state |-> "fulfilled", reason |-> ""]
    [] h.kind = "fulfilled" -> [state |-> "fulfilled", reason |-> ""]
    [] h.kind = "rejected"  -> [state |-> "rejected", reason |-> h.reason]
    [] h.kind = "pending"   -> [state |-> "pending", reason |-> ""]

\* .then(next) in place of .catch(next): next runs on success, not on failure.
CatchReaction_Then(p, calls) ==
  IF p.state = "fulfilled" THEN Append(calls, p.reason) ELSE calls

\* promise.catch(next) is promise.then(undefined, next): next runs only on rejection.
CatchReaction(p, calls) ==
  IF p.state = "rejected" THEN Append(calls, p.reason) ELSE calls

\* The wrapper holds no try/catch: a throw inside routeHandler leaves it
\* before Promise.resolve is reached.
WrapperBody(h) ==
  IF h.kind = "throws"
    THEN [ wrapper |-> "threw", escaped |-> <<h.reason>>,
           promise |-> NoPromise, reaction |-> "none" ]
    ELSE [ wrapper |-> "returned", escaped |-> <<>>,
           promise |-> PromiseResolve(h),
           reaction |-> IF PromiseResolve(h).state = "pending"
                          THEN "registered" ELSE "queued" ]

AsyncInit ==
  /\ handler = [r \in Requests |-> NoHandler]
  /\ wrapper = [r \in Requests |-> "idle"]
  /\ escaped = [r \in Requests |-> <<>>]
  /\ promise = [r \in Requests |-> NoPromise]
  /\ reaction = [r \in Requests |-> "none"]
  /\ nextCalls = [r \in Requests |-> <<>>]

\* Express calls the wrapped handler for request r.
Call(r) ==
  /\ wrapper[r] = "idle"
  /\ \E h \in HandlerBehaviours :
       LET out == WrapperBody(h)
       IN  /\ handler' = [handler EXCEPT ![r] = h]
           /\ wrapper' = [wrapper EXCEPT ![r] = out.wrapper]
           /\ escaped' = [escaped EXCEPT ![r] = out.escaped]
           /\ promise' = [promise EXCEPT ![r] = out.promise]
           /\ reaction' = [reaction EXCEPT ![r] = out.reaction]
  /\ UNCHANGED <<nextCalls, errVars, letterVars, goalVars>>

\* The deferred result of request r settles after the handler has returned.
Settle(r) ==
  /\ promise[r].state = "pending"
  /\ \/ promise' = [promise EXCEPT ![r] = [state |-> "fulfilled", reason |-> ""]]
     \/ \E v \in Reasons :
          promise' = [promise EXCEPT ![r] = [state |-> "rejected", reason |-> v]]
  /\ reaction' = [reaction EXCEPT ![r] = "queued"]
  /\ UNCHANGED <<handler, wrapper, escaped, nextCalls, errVars, letterVars, goalVars>>

\* The microtask queue runs the reaction of request r.
RunReaction(r) ==
  /\ reaction[r] = "queued"
  /\ nextCalls' = [nextCalls EXCEPT ![r] = CatchReaction(promise[r], nextCalls[r])]
  /\ reaction' = [reaction EXCEPT ![r] = "ran"]
  /\ UNCHANGED <<handler, wrapper, escaped, promise, errVars, letterVars, goalVars>>

AsyncNext ==
  \/ \E r \in Requests : Call(r)
  \/ \E r \in Requests : Settle(r)
  \/ \E r \in Requests : RunReaction(r)

(***************************************************************************)
(* letter.js: the deliveredAt validator, run by save() on the document.    *)
(* Times are milliseconds since the epoch, as Date holds them.             *)
(***************************************************************************)
MsPerDay == 24 * 60 * 60 * 1000

sevenDaysInMilliseconds == 7 * 24 * 60 * 60 * 1000

MaxNowDay == 8

MaxDeliveryDay == 9

MaxReflections == 1

TimesOfDay == {0, 12 * 60 * 60 * 1000, MsPerDay - 1}

ClockTimes == { d * MsPerDay + o : d \in 0..MaxNowDay, o \in TimesOfDay }

DeliveryDates == { d * MsPerDay + o : d \in 0..MaxDeliveryDay, o \in TimesOfDay }

\* The time of day is kept: the timestamp is compared as it is.
UTCMidnight_Keep(t) == t

\* Date.UTC(t.getUTCFullYear(), t.getUTCMonth(), t.getUTCDate()): the first
\* millisecond of the UTC day that holds t.
UTCMidnight(t) == t - (t % MsPerDay)

\* The gate is missing: the 7-day rule runs on every save.
validator_Ungated(value, isNew, isModified, today) ==
  UTCMidnight(value) >= UTCMidnight(today) + sevenDaysInMilliseconds

validator(value, isNew, isModified, today) ==
  LET isNewLetter == isNew
      isRescheduling == isModified
  IN  IF isNewLetter \/ isRescheduling
        THEN LET todayAtMidnightUTC == UTCMidnight(today)
                 minimumDeliveryDateMs == todayAtMidnightUTC + sevenDaysInMilliseconds
                 chosenDateAtMidnightUTC == UTCMidnight(value)
             IN  chosenDateAtMidnightUTC >= minimumDeliveryDateMs
        ELSE TRUE

NoLetter ==
  [ state |-> "none", isNew |-> FALSE, deliveredAt |-> 0, isModified |-> FALSE,
    stored |-> <<>>, isDelivered |-> FALSE, reflections |-> 0, dirty |-> FALSE ]

NoCall ==
  [ ran |-> FALSE, value |-> 0, today |-> 0, isNew |-> FALSE,
    isRescheduling |-> FALSE, result |-> TRUE ]

LetterInit ==
  /\ now \in TimesOfDay
  /\ letter = NoLetter
  /\ lastValidate = NoCall

\* new Letter({ ..., deliveredAt: d }): isDelivered takes its default.
NewLetter ==
  /\ letter.state = "none"
  /\ \E d \in DeliveryDates :
       letter' = [ NoLetter EXCEPT !.state = "doc", !.isNew = TRUE,
                                   !.deliveredAt = d, !.isModified = TRUE ]
  /\ lastValidate' = NoCall
  /\ UNCHANGED <<now, errVars, asyncVars, goalVars>>

\* letter.deliveredAt = d on a document already built: a reschedule.
SetDeliveredAt ==
  /\ letter.state = "doc"
  /\ \E d \in DeliveryDates \ {letter.deliveredAt} :
       letter' = [letter EXCEPT !.deliveredAt = d, !.isModified = TRUE]
  /\ lastValidate' = NoCall
  /\ UNCHANGED <<now, errVars, asyncVars, goalVars>>

\* letter.isDelivered = true
MarkDelivered ==
  /\ letter.state = "doc"
  /\ ~letter.isDelivered
  /\ letter' = [letter EXCEPT !.isDelivered = TRUE, !.dirty = TRUE]
  /\ lastValidate' = NoCall
  /\ UNCHANGED <<now, errVars, asyncVars, goalVars>>

\* letter.reflections.push(...)
AddReflection ==
  /\ letter.state = "doc"
  /\ letter.reflections < MaxReflections
  /\ letter' = [letter EXCEPT !.reflections = @ + 1, !.dirty = TRUE]
  /\ lastValidate' = NoCall
  /\ UNCHANGED <<now, errVars, asyncVars, goalVars>>

\* letter.save(): deliveredAt is a required path, so its validators run on
\* every save, with this bound to the document.
Save ==
  /\ letter.state = "doc"
  /\ LET ok == validator(letter.deliveredAt, letter.isNew, letter.isModified, now)
     IN  /\ lastValidate' =
              [ ran |-> TRUE, value |-> letter.deliveredAt, today |-> now,
                isNew |-> letter.isNew, isRescheduling |-> letter.isModified,
                result |-> ok ]
         /\ letter' = IF ok
                        THEN [letter EXCEPT !.isNew = FALSE, !.isModified = FALSE,
                                            !.dirty = FALSE,
                                            !.stored = <<letter.deliveredAt>>]
                        ELSE letter
  /\ UNCHANGED <<now, errVars, asyncVars, goalVars>>

Tick ==
  /\ \E t \in ClockTimes :
       /\ t > now
       /\ \A u \in ClockTimes : u > now => t <= u
       /\ now' = t
  /\ lastValidate' = NoCall
  /\ UNCHANGED <<letter, errVars, asyncVars, goalVars>>

LetterNext ==
  \/ NewLetter \/ SetDeliveredAt \/ MarkDelivered \/ AddReflection \/ Save \/ Tick

LetterQuiet ==
  /\ now = 0
  /\ letter = NoLetter
  /\ lastValidate = NoCall

(***************************************************************************)
(* letter.js: goalSchema, and the goal service that writes goals.  The     *)
(* schema declares the fields, the status enum and the defaults.  The      *)
(* service that changes a goal's status and carries a goal forward is not  *)
(* among the source files; it is modelled from the design document (4.6,   *)
(* 5): a carry-forward first creates the destination goal in a new letter  *)
(* and then, in a second document write that may fail, marks the origin.   *)
(***************************************************************************)
MaxGoals == 3

MaxLetters == 3

MaxClock == 2

GoalStatuses == {"pending", "accomplished", "inProgress", "abandoned", "carriedForward"}

DefaultStatus_InProgress == "inProgress"

DefaultStatus == "pending"

\* A goal as the schema builds it: status takes its default, the references
\* and statusUpdatedAt stay unset unless given.
NewGoal(letterId, from) ==
  [ letter |-> letterId, status |-> DefaultStatus, carriedForwardTo |-> <<>>,
    carriedForwardFrom |-> from, statusUpdatedAt |-> <<>> ]

\* Schema validation of a goal: status is a member of the enum.
GoalValid(g) == g.status \in GoalStatuses

\* Design 4.6: the status state machine.
CanTransition(from, to) ==
  \/ from = "pending" /\ to \in {"accomplished", "inProgress", "abandoned", "carriedForward"}
  \/ from = "inProgress" /\ to \in {"accomplished", "abandoned", "carriedForward"}

\* The status changes and statusUpdatedAt is left as it was.
Transition_NoStamp(g, to, time) == [g EXCEPT !.status = to]

\* Design 4.6: every status transition stamps statusUpdatedAt.
Transition(g, to, time) ==
  [g EXCEPT !.status = to, !.statusUpdatedAt = <<time>>]

\* Design 4.6: the origin's side of a carry-forward.
LinkOrigin(g, destLetter, time) ==
  [Transition(g, "carriedForward", time) EXCEPT !.carriedForwardTo = <<destLetter>>]

GoalInit ==
  /\ goals = <<>>
  /\ letters = 0
  /\ gClock = 0
  /\ carry = <<>>

\* A letter is created with one goal.  (Design 5: one logical request at a
\* time, so no other write falls between the two writes of a carry-forward.)
CreateLetter ==
  /\ carry = <<>>
  /\ letters < MaxLetters
  /\ Len(goals) < MaxGoals
  /\ GoalValid(NewGoal(letters + 1, <<>>))
  /\ letters' = letters + 1
  /\ goals' = Append(goals, NewGoal(letters + 1, <<>>))
  /\ UNCHANGED <<gClock, carry, errVars, asyncVars, letterVars>>

\* The owner sets a goal's status to accomplished, inProgress or abandoned.
UpdateGoalStatus ==
  /\ carry = <<>>
  /\ \E i \in 1..Len(goals), s \in GoalStatuses \ {"carriedForward"} :
       /\ CanTransition(goals[i].status, s)
       /\ GoalValid(Transition(goals[i], s, gClock))
       /\ goals' = [goals EXCEPT ![i] = Transition(goals[i], s, gClock)]
  /\ UNCHANGED <<letters, gClock, carry, errVars, asyncVars, letterVars>>

\* Carry-forward, first write: the destination goal in a new letter.
CarryForwardCreate ==
  /\ carry = <<>>
  /\ letters < MaxLetters
  /\ Len(goals) < MaxGoals
  /\ \E i \in 1..Len(goals) :
       /\ CanTransition(goals[i].status, "carriedForward")
       /\ GoalValid(NewGoal(letters + 1, <<goals[i].letter>>))
       /\ goals' = Append(goals, NewGoal(letters + 1, <<goals[i].letter>>))
       /\ carry' = <<[origin |-> i, dest |-> letters + 1]>>
  /\ letters' = letters + 1
  /\ UNCHANGED <<gClock, errVars, asyncVars, letterVars>>

\* Carry-forward, second write: the origin becomes carriedForward.
CarryForwardLink ==
  /\ carry # <<>>
  /\ LET i == carry[1].origin
     IN  /\ GoalValid(LinkOrigin(goals[i], carry[1].dest, gClock))
         /\ goals' = [goals EXCEPT ![i] = LinkOrigin(goals[i], carry[1].dest, gClock)]
  /\ carry' = <<>>
  /\ UNCHANGED <<letters, gClock, errVars, asyncVars, letterVars>>

\* Design 5: the second write fails and nothing repairs the one-sided link.
CarryForwardFail ==
  /\ carry # <<>>
  /\ carry' = <<>>
  /\ UNCHANGED <<goals, letters, gClock, errVars, asyncVars, letterVars>>

GoalTick ==
  /\ gClock < MaxClock
  /\ gClock' = gClock + 1
  /\ UNCHANGED <<goals, letters, carry, errVars, asyncVars, letterVars>>

GoalNext ==
  \/ CreateLetter \/ UpdateGoalStatus \/ CarryForwardCreate
  \/ CarryForwardLink \/ CarryForwardFail \/ GoalTick

GoalQuiet == GoalInit

vars == <<errVars, asyncVars, letterVars, goalVars>>

InitErrors == ErrInit /\ AsyncInit /\ LetterQuiet /\ GoalQuiet

InitAsync == ErrQuiet /\ AsyncInit /\ LetterQuiet /\ GoalQuiet

InitLetter == ErrQuiet /\ AsyncInit /\ LetterInit /\ GoalQuiet

InitGoals == ErrQuiet /\ AsyncInit /\ LetterQuiet /\ GoalInit

SpecErrors == InitErrors /\ [][ErrNext]_vars

SpecAsync == InitAsync /\ [][AsyncNext]_vars

SpecLetter == InitLetter /\ [][LetterNext]_vars

SpecGoals == InitGoals /\ [][GoalNext]_vars

(***************************************************************************)
(* Properties.                                                             *)
(***************************************************************************)
Answered == ePc \in {"responded", "crashed"}

EightPairs ==
  { <<"VALIDATION_ERROR", 400>>, <<"INVALID_ID", 400>>, <<"DUPLICATE_ERROR", 400>>,
    <<"NOT_FOUND", 404>>, <<"UNAUTHORIZED", 401>>, <<"FORBIDDEN", 403>>,
    <<"AI_SERVICE_ERROR", 503>>, <<"INTERNAL_ERROR", 500>> }

\* C1: every failure handed to errorHandler gets exactly one response, and
\* its (code, status) pair is one of the eight pairs of the taxonomy.
C1_ClosedTaxonomy ==
  Answered =>
    /\ Len(responses) = 1
    /\ responses[1].code.t = "string"
    /\ <<responses[1].code.v, responses[1].status>> \in EightPairs

ShapeValidation == error.name = "ValidationError" /\ error.errors # <<>>

ShapeCast == error.name = "CastError"

ShapeDuplicate == error.code.t = "number" /\ error.code.v = "11000"

ShapeOperational == error.isOperational

Unclassified ==
  ~ShapeValidation /\ ~ShapeCast /\ ~ShapeDuplicate /\ ~ShapeOperational

GenericInternal ==
  [ status |-> 500, success |-> FALSE, code |-> Str("INTERNAL_ERROR"),
    message |-> "An unexpected error occurred", fields |-> <<>>, stack |-> <<>> ]

\* C2: an unclassified failure is answered 500 INTERNAL_ERROR; outside
\* development the body is the same fixed one whatever the failure's message
\* and stack, and in development it carries the failure's message and stack.
C2_InternalHidden ==
  (Answered /\ Unclassified) =>
    responses =
      << IF nodeEnv = "development"
           THEN [GenericInternal EXCEPT !.message = error.message,
                                        !.stack = <<error.stack>>]
           ELSE GenericInternal >>

C2_Witness ==
  /\ ePc = "responded"
  /\ Unclassified
  /\ nodeEnv = "production"
  /\ error.message = "boom"
  /\ error.code = Str("11000")
  /\ responses = <<GenericInternal>>

ValidationErrs == error.errors[1]

Leaf(i) == ValidationErrs[i].path[Len(ValidationErrs[i].path)]

LeavesDistinct ==
  \A i, j \in 1..Len(ValidationErrs) : i # j => Leaf(i) # Leaf(j)

SentFields == responses[1].fields[1]

\* C7 as stated: a storage validation failure with N offending fields is
\* answered 400 VALIDATION_ERROR with exactly N entries in fields, keyed by the
\* leaf of each path, and with the first offending field's message.
C7_OneEntryPerField ==
  (Answered /\ ShapeValidation) =>
    /\ Len(responses) = 1
    /\ responses[1].status = 400
    /\ responses[1].code = Str("VALIDATION_ERROR")
    /\ Len(SentFields) = Len(ValidationErrs)
    /\ \A i \in 1..Len(ValidationErrs) :
         \E n \in 1..Len(SentFields) :
           SentFields[n] = [k |-> Leaf(i), v |-> ValidationErrs[i].message]
    /\ Len(ValidationErrs) > 0 => responses[1].message = ValidationErrs[1].message

\* C7 amended: the answer is 400 VALIDATION_ERROR with one entry in fields per
\* distinct leaf, holding the message of the last offending field with that
\* leaf; with no offending field the message is "Validation failed"; when the
\* N leaves are pairwise distinct and none is an array index, fields has
\* exactly N entries in the fields' order and the message is the first
\* field's message.
C7_OneEntryPerLeaf ==
  (Answered /\ ShapeValidation) =>
    /\ Len(responses) = 1
    /\ responses[1].status = 400
    /\ responses[1].code = Str("VALIDATION_ERROR")
    /\ responses[1].stack = <<>>
    /\ Len(SentFields) = Cardinality({Leaf(i) : i \in 1..Len(ValidationErrs)})
    /\ \A i \in 1..Len(ValidationErrs) :
         (\A j \in (i + 1)..Len(ValidationErrs) : Leaf(j) # Leaf(i)) =>
           \E n \in 1..Len(SentFields) :
             SentFields[n] = [k |-> Leaf(i), v |-> ValidationErrs[i].message]
    /\ Len(ValidationErrs) = 0 => responses[1].message = "Validation failed"
    /\ (LeavesDistinct /\ \A i \in 1..Len(ValidationErrs) : ~IsArrayIndex(Leaf(i))) =>
         /\ Len(SentFields) = Len(ValidationErrs)
         /\ \A i \in 1..Len(ValidationErrs) :
              SentFields[i] = [k |-> Leaf(i), v |-> ValidationErrs[i].message]
         /\ Len(ValidationErrs) > 0 =>
              responses[1].message = ValidationErrs[1].message

C7_Witness ==
  /\ ePc = "responded"
  /\ ShapeValidation
  /\ Len(ValidationErrs) = 2
  /\ ValidationErrs[1].path = <<"reflections", "0", "reflection">>
  /\ ValidationErrs[2].path = <<"goals", "1", "text">>
  /\ ValidationErrs[1].message # ValidationErrs[2].message
  /\ Len(SentFields) = 2
  /\ SentFields[1].k = "reflection"
  /\ responses[1].message = ValidationErrs[1].message

ShapesMatched ==
  (IF ShapeValidation THEN 1 ELSE 0) + (IF ShapeCast THEN 1 ELSE 0)
    + (IF ShapeDuplicate THEN 1 ELSE 0) + (IF ShapeOperational THEN 1 ELSE 0)

\* C8: a failure that matches more than one shape is answered as the earliest
\* of storage validation, cast, duplicate key, operational that it matches.
C8_FirstMatchWins ==
  (Answered /\ ShapesMatched > 1) =>
    /\ Len(responses) = 1
    /\ responses[1].status = 400
    /\ responses[1].code =
         IF ShapeValidation THEN Str("VALIDATION_ERROR")
         ELSE IF ShapeCast THEN Str("INVALID_ID")
         ELSE Str("DUPLICATE_ERROR")

\* C3: a rejection of the handler's promise, before or after the handler
\* returned, reaches next exactly once with the rejection's value: it is queued
\* as soon as the promise is rejected, next is never called twice, and never
\* when the promise is fulfilled.
C3_RejectionForwardedOnce ==
  \A r \in Requests :
    /\ Len(nextCalls[r]) <= 1
    /\ promise[r].state = "rejected" => reaction[r] \in {"queued", "ran"}
    /\ (promise[r].state = "rejected" /\ reaction[r] = "ran") =>
         nextCalls[r] = <<promise[r].reason>>
    /\ promise[r].state # "rejected" => nextCalls[r] = <<>>
    /\ reaction[r] # "ran" => nextCalls[r] = <<>>

C3_Witness ==
  \E r \in Requests :
    /\ handler[r].kind = "pending"
    /\ promise[r] = [state |-> "rejected", reason |-> "db down"]
    /\ reaction[r] = "ran"
    /\ nextCalls[r] = <<"db down">>

\* C4: a handler that throws synchronously has its exception caught by the
\* wrapper and forwarded to next exactly once; nothing escapes the wrapper.
C4_SyncThrowForwarded ==
  \A r \in Requests :
    handler[r].kind = "throws" =>
      /\ escaped[r] = <<>>
      /\ Len(nextCalls[r]) <= 1
      /\ reaction[r] \in {"queued", "ran"}
      /\ reaction[r] = "ran" => nextCalls[r] = <<handler[r].reason>>

RuleApplies == lastValidate.ran /\ (lastValidate.isNew \/ lastValidate.isRescheduling)

DayOf(t) == t \div MsPerDay

\* C5: for a new letter or a modified deliveredAt the validator accepts d iff
\* the UTC day of d is at least 7 days after the UTC day of now, whatever the
\* times of day; the day 7 days after today is accepted, the day before is not.
C5_SevenDayRule ==
  RuleApplies =>
    lastValidate.result = (DayOf(lastValidate.value) >= DayOf(lastValidate.today) + 7)

C5_Witness ==
  /\ RuleApplies
  /\ DayOf(lastValidate.value) = DayOf(lastValidate.today) + 7
  /\ lastValidate.value % MsPerDay = 0
  /\ lastValidate.today % MsPerDay = MsPerDay - 1
  /\ lastValidate.result

\* C6: saving an existing letter whose deliveredAt is not modified never
\* applies the 7-day rule: the validator accepts the stored date whatever the
\* clock reads; a rejection happens only for a new letter or a modified
\* deliveredAt, and then exactly when the date is less than 7 days out.
C6_RoutineUpdatesPass ==
  lastValidate.ran =>
    /\ (~lastValidate.isNew /\ ~lastValidate.isRescheduling) =>
         /\ lastValidate.result
         /\ letter.stored = <<lastValidate.value>>
    /\ ~lastValidate.result =>
         /\ lastValidate.isNew \/ lastValidate.isRescheduling
         /\ DayOf(lastValidate.value) < DayOf(lastValidate.today) + 7

C6_Witness ==
  /\ lastValidate.ran
  /\ ~lastValidate.isNew
  /\ ~lastValidate.isRescheduling
  /\ lastValidate.value < lastValidate.today
  /\ lastValidate.result
  /\ letter.isDelivered
  /\ letter.reflections > 0

GoalsIn(l) == { i \in 1..Len(goals) : goals[i].letter = l }

AllowedTransitions ==
  ({"pending"} \X {"accomplished", "inProgress", "abandoned", "carriedForward"})
    \cup ({"inProgress"} \X {"accomplished", "abandoned", "carriedForward"})

\* C10: a goal's status changes only along pending -> {accomplished,
\* inProgress, abandoned, carriedForward} and inProgress -> {accomplished,
\* abandoned, carriedForward}, so accomplished, abandoned and carriedForward
\* are final, and every change sets statusUpdatedAt to the time of the change.
C10_StatusMachine ==
  [][ \A i \in 1..Len(goals) :
        /\ i <= Len(goals')
        /\ goals'[i].status # goals[i].status =>
             /\ <<goals[i].status, goals'[i].status>> \in AllowedTransitions
             /\ goals'[i].statusUpdatedAt = <<gClock'>> ]_vars

C10_Witness ==
  \E i, j \in 1..Len(goals) :
    /\ goals[i].status = "accomplished"
    /\ goals[i].statusUpdatedAt = <<MaxClock>>
    /\ goals[j].status = "carriedForward"
    /\ goals[j].statusUpdatedAt = <<1>>

====
